---- MODULE Spec2Model ----
(***************************************************************************)
(* Toxic-comment moderation: the Streamlit user page (user.py) and the     *)
(* admin page (admin.py).                                                  *)
(*                                                                         *)
(* Shared, persisted state: submitted_comments.csv (the comment ledger)    *)
(* and the two model artifacts tfidf_vectorizer.pkl and                    *)
(* toxic_comment_model.pkl.  Per browser session: st.session_state.        *)
(*                                                                         *)
(*   Spec          one script run of user.py / admin.py per step           *)
(*   SpecAppend    save_comment_to_csv split at its file read and write    *)
(*   SpecArtifacts train_model's two dumps against load_model's two loads  *)
(***************************************************************************)
EXTENDS Naturals, Sequences, FiniteSets, TLC

\* ------------------------------------------------------------------ bounds
\* Rows the ledger may hold before the model stops publishing.
MaxRows == 2
\* Concurrent callers of save_comment_to_csv (SpecAppend).
NumWriters == 2

\* ------------------------------------------------------------------ values
\* Comment texts a user can type.  "" is the blank text, "NA" is one of the
\* strings pandas.read_csv takes for a missing value.
Texts == {"", "ok", "bad", "NA"}
\* Python's None, and pandas' NaN cell.
None == "<None>"
NaN == "<NaN>"
\* Browser sessions of the user page.  st.session_state is private to one;
\* sessions meet only in the two pickles and the csv file (SpecAppend).
Users == {"u1"}
\* The label-1 sets a fitted pair may have: "bad" is toxic and "ok" is not in
\* every corpus of the model, "NA" depends on the corpus.
Vocabularies == {{"bad"}, {"bad", "NA"}}

VARIABLES
    csvExists,       \* os.path.exists("submitted_comments.csv")
    csvRows,         \* the file's data rows, cells as written: [comment, is_toxic]
    tfidfPkl,        \* tfidf_vectorizer.pkl  : [st, run, vocab]
    modelPkl,        \* toxic_comment_model.pkl : [st, run, vocab]
    toxic_comment,   \* st.session_state.toxic_comment, per user
    submitted_comments, \* st.session_state.submitted_comments, per user
    written,         \* rows the user's current moderation session has saved
    ev,              \* the last script run (of any page): see Ran
    wPc, wSnap, wRow,      \* SpecAppend: each caller's position, read, new row
    csv0,                   \* SpecAppend: the rows at the start
    tPc, tRun, store0,      \* SpecArtifacts: train_model's position
    rPc, rTfidf, rModel     \* SpecArtifacts: load_model's position and loads

userVars == <<toxic_comment, submitted_comments, written>>
fileVars == <<csvExists, csvRows>>
pklVars == <<tfidfPkl, modelPkl>>
appendVars == <<wPc, wSnap, wRow, csv0>>
artifactVars == <<tPc, tRun, store0, rPc, rTfidf, rModel>>
vars == <<userVars, fileVars, pklVars, ev, appendVars, artifactVars>>

\* ------------------------------------------------------------ artifacts
\* An artifact file: absent, truncated, or the pickle of training run `run`,
\* whose fitted pair labels exactly the texts of `vocab` 1.
Missing == [st |-> "missing", run |-> 0, vocab |-> {}]
Fitted(r, v) == [st |-> "ok", run |-> r, vocab |-> v]
\* A file a failed or unfinished joblib.dump left truncated.
Partial == [st |-> "partial", run |-> 0, vocab |-> {}]

\* Names for training runs.  A run is told from the runs whose artifacts are
\* still on disk or in a reader's hands; that is four runs at most.
RunIds == {1, 2, 3, 4, 5}
FreshRun(inUse) == CHOOSE r \in RunIds : r \notin inUse /\ \A q \in RunIds \ inUse : r <= q

\* joblib.load: the file's content, or an exception.
JoblibLoadOk(f) == f.st = "ok"

\* user.py load_model: both loads succeed, else st.error + st.stop.
LoadModelOk == JoblibLoadOk(tfidfPkl) /\ JoblibLoadOk(modelPkl)

\* tfidf.transform + model.predict on a loaded pair.  A matched pair gives
\* its fitted label.  A vectorizer of one run with a classifier of another
\* gives a feature vector the classifier was not fitted on: sklearn raises
\* when the widths differ and returns a meaningless label when they agree.
PredictOutcomes(tf, md, text) ==
    IF tf.run = md.run
    THEN {IF text \in md.vocab THEN "toxic" ELSE "clean"}
    ELSE {"toxic", "clean", "error"}

\* predict_toxicity(comment, tfidf, model) on the pair this run loaded.
predict_toxicity(text) == PredictOutcomes(tfidfPkl, modelPkl, text)

\* ------------------------------------------------------------------ csv
\* Strings pandas.read_csv turns into NaN (default na_values), among Texts.
NaValues == {"", "NA"}

BoolCell(b) == IF b THEN "True" ELSE "False"

\* pd.read_csv(filename): cell by cell.
ReadCell(c) == IF c \in NaValues THEN NaN ELSE c
read_csv(rows) ==
    [i \in 1..Len(rows) |->
        [comment |-> ReadCell(rows[i].comment),
         is_toxic |-> ReadCell(rows[i].is_toxic)]]

\* DataFrame.to_csv(filename, index=False): NaN is written as the empty cell.
WriteCell(c) == IF c = NaN THEN "" ELSE c
to_csv(df) ==
    [i \in 1..Len(df) |->
        [comment |-> WriteCell(df[i].comment),
         is_toxic |-> WriteCell(df[i].is_toxic)]]

\* The one-row DataFrame save_comment_to_csv builds.
NewComment(comment, is_toxic) ==
    [comment |-> comment, is_toxic |-> BoolCell(is_toxic)]

\* save_comment_to_csv up to its write: read the file if it is there, concat.
ReadAndConcat(exists, rows, new) ==
    IF exists THEN Append(read_csv(rows), new) ELSE <<new>>

\* What save_comment_to_csv writes when nothing runs between read and write.
UpdatedComments(exists, rows, new) == to_csv(ReadAndConcat(exists, rows, new))

\* save_comment_to_csv, run without interruption.
save_comment_to_csv(new) ==
    /\ csvRows' = UpdatedComments(csvExists, csvRows, new)
    /\ csvExists' = TRUE

\* ----------------------------------------------------- user.py: script run
\* `if st.session_state.toxic_comment:` -- Python truthiness of None / str.
Truthy(x) == x /= None /\ x /= ""

\* comment.strip() == "" for the texts of the model.
IsBlank(text) == text = ""

NoRow == [comment |-> None, is_toxic |-> None]
\* One script run, as the page shows it: who ran, which branch, the text it
\* handled, the classifier's answer if it was asked, the row it saved.
EmptyFrame == << >>
Ran(who, kind, text, cls, saved) ==
    [who |-> who, kind |-> kind, text |-> text, cls |-> cls, saved |-> saved,
     view |-> EmptyFrame]
\* A run of the admin's loader: the branch, whether st.error was shown, and
\* the DataFrame it returned.
Loaded(kind, cls, df) ==
    [who |-> "admin", kind |-> kind, text |-> None, cls |-> cls, saved |-> NoRow,
     view |-> df]

\* What the three publishing branches hand to save_comment_to_csv and what
\* they leave in the session.
SubmitSavedToxic(comment) == NewComment(comment, TRUE)
SubmitSaved(comment) == NewComment(comment, FALSE)
RecheckSavedStale(u, edited) == NewComment(toxic_comment[u], FALSE)
RecheckSaved(u, edited) == NewComment(edited, FALSE)
OverrideSavedClean(u) == NewComment(toxic_comment[u], FALSE)
OverrideSaved(u) == NewComment(toxic_comment[u], TRUE)
\* The flagged text after a re-check that is still toxic: only st.error runs.
FlagAfterToxicRecheck(u, edited) == toxic_comment[u]
\* The flagged text after a publishing re-check, an override, a cancel.
FlagKeptAfterRecheckPublish(u) == toxic_comment[u]
FlagAfterRecheckPublish(u) == None
FlagKeptAfterOverride(u) == toxic_comment[u]
FlagAfterOverride(u) == None
FlagKeptAfterCancel(u) == toxic_comment[u]
FlagAfterCancel(u) == None

\* The feed entry and the ledger row of one publication.
Publish(u, row) ==
    /\ Len(csvRows) < MaxRows
    /\ submitted_comments' =
          [submitted_comments EXCEPT ![u] = Append(@, row.comment)]
    /\ save_comment_to_csv(row)

\* load_model failed: st.error("Model not found"), st.stop().  Whatever
\* button was pressed, the run ends before the handlers.
RunStopped(u) ==
    /\ ~LoadModelOk
    /\ ev' = Ran(u, "stopped", None, "none", NoRow)
    /\ UNCHANGED <<toxic_comment, submitted_comments, written>>
    /\ UNCHANGED <<fileVars, pklVars, appendVars, artifactVars>>

\* `if st.session_state.toxic_comment:` ... `else:` -- the comment box and
\* its Submit button are drawn only in the else branch.
SubmitAlwaysShown(u) == TRUE
SubmitEnabled(u) == ~Truthy(toxic_comment[u])

\* The Submit button, no flagged comment in the session.
Submit(u, comment) ==
    /\ LoadModelOk
    /\ SubmitEnabled(u)
    /\ IF IsBlank(comment)
       THEN /\ ev' = Ran(u, "blank", comment, "none", NoRow)
            /\ UNCHANGED <<toxic_comment, submitted_comments, written, fileVars>>
       ELSE \E r \in predict_toxicity(comment) :
            CASE r = "error" ->
                   /\ ev' = Ran(u, "submit_exception", comment, r, NoRow)
                   /\ UNCHANGED <<toxic_comment, submitted_comments, written, fileVars>>
              [] r = "toxic" ->
                   /\ toxic_comment' = [toxic_comment EXCEPT ![u] = comment]
                   /\ written' = [written EXCEPT ![u] = 0]
                   /\ ev' = Ran(u, "flagged", comment, r, NoRow)
                   /\ UNCHANGED <<submitted_comments, fileVars>>
              [] r = "clean" ->
                   /\ Publish(u, SubmitSaved(comment))
                   /\ written' = [written EXCEPT ![u] = 1]
                   /\ ev' = Ran(u, "published", comment, r, SubmitSaved(comment))
                   /\ UNCHANGED toxic_comment
    /\ UNCHANGED <<pklVars, appendVars, artifactVars>>

\* The "Re-check Comment" button with the text area's content.
Recheck(u, edited) ==
    /\ LoadModelOk
    /\ Truthy(toxic_comment[u])
    /\ \E r \in predict_toxicity(edited) :
         CASE r = "error" ->
                /\ ev' = Ran(u, "recheck_exception", edited, r, NoRow)
                /\ UNCHANGED <<toxic_comment, submitted_comments, written, fileVars>>
           [] r = "toxic" ->
                /\ toxic_comment' =
                      [toxic_comment EXCEPT ![u] = FlagAfterToxicRecheck(u, edited)]
                /\ ev' = Ran(u, "still_toxic", edited, r, NoRow)
                /\ UNCHANGED <<submitted_comments, written, fileVars>>
           [] r = "clean" ->
                /\ Publish(u, RecheckSaved(u, edited))
                /\ written' = [written EXCEPT ![u] = @ + 1]
                /\ toxic_comment' =
                      [toxic_comment EXCEPT ![u] = FlagAfterRecheckPublish(u)]
                /\ ev' = Ran(u, "rechecked", edited, r, RecheckSaved(u, edited))
    /\ UNCHANGED <<pklVars, appendVars, artifactVars>>

\* The "Submit Anyway" button.
SubmitAnyway(u) ==
    /\ LoadModelOk
    /\ Truthy(toxic_comment[u])
    /\ Publish(u, OverrideSaved(u))
    /\ written' = [written EXCEPT ![u] = @ + 1]
    /\ toxic_comment' = [toxic_comment EXCEPT ![u] = FlagAfterOverride(u)]
    /\ ev' = Ran(u, "override", toxic_comment[u], "none", OverrideSaved(u))
    /\ UNCHANGED <<pklVars, appendVars, artifactVars>>

\* The "Cancel" button.
Cancel(u) ==
    /\ LoadModelOk
    /\ Truthy(toxic_comment[u])
    /\ toxic_comment' = [toxic_comment EXCEPT ![u] = FlagAfterCancel(u)]
    /\ ev' = Ran(u, "cancel", toxic_comment[u], "none", NoRow)
    /\ UNCHANGED <<submitted_comments, written, fileVars>>
    /\ UNCHANGED <<pklVars, appendVars, artifactVars>>


\* ------------------------------------------------- admin.py: the ledger
\* detect_toxic_comments(comment) on one cell of the comment column:
\* "skip" for a NaN or empty cell, "error" when a load or the prediction
\* raises, else the loaded pair's label.
DetectOutcomes(c) ==
    IF c = NaN \/ c = "" THEN {"skip"}
    ELSE IF ~LoadModelOk THEN {"error"}
    ELSE predict_toxicity(c)

\* What detect_toxic_comments returns for an outcome: the except branch and
\* the empty-cell branch both return False.
DetectReturn(o) == IF o = "toxic" THEN "True" ELSE "False"

\* `'is_toxic' not in df.columns or df['is_toxic'].isna().any()`
NeedsBackfill(df) == \E i \in 1..Len(df) : df[i].is_toxic = NaN

\* fillna(False).astype(bool) on one cell.
FillNa(c) == IF c = NaN THEN "False" ELSE c

\* `os.path.exists(filename)` at the head of load_comments_data.
FileAssumed == TRUE
FileFound == csvExists

\* load_comments_data(): one run of the admin dashboard's loader.
LoadCommentsData ==
    /\ IF ~FileFound
       THEN ev' = Loaded("no_file", "none", EmptyFrame)
       ELSE LET df == read_csv(csvRows) IN
            IF NeedsBackfill(df)
            THEN \E o \in [1..Len(df) -> {"skip", "error", "toxic", "clean"}] :
                   /\ \A i \in 1..Len(df) : o[i] \in DetectOutcomes(df[i].comment)
                   /\ ev' = Loaded("backfilled",
                                   IF \E i \in 1..Len(df) : o[i] = "error"
                                   THEN "error" ELSE "none",
                                   [i \in 1..Len(df) |->
                                      [comment |-> df[i].comment,
                                       is_toxic |-> FillNa(DetectReturn(o[i]))]])
            ELSE ev' = Loaded("loaded", "none",
                              [i \in 1..Len(df) |->
                                 [comment |-> df[i].comment,
                                  is_toxic |-> FillNa(df[i].is_toxic)]])
    /\ UNCHANGED <<userVars, fileVars, pklVars, appendVars, artifactVars>>

\* ---------------------------------------------- admin.py: train_model
\* The dataset and the disk, as far as train_model's control flow reads
\* them: whether the text and label columns are there, how many distinct
\* label values the rows left by dropna carry, and which dump fails.
TrainInputs ==
    [columns : BOOLEAN, classes : {0, 1, 2},
     disk : {"ok", "fail_model", "fail_tfidf"}]

\* A fit that accepts rows of a single label value.
FitsOkOneClass(in) == in.columns /\ in.classes >= 1

\* Steps 78-102 raise or return before the dumps: missing columns return
\* after st.error; train_test_split raises on no rows; LogisticRegression.fit
\* raises on a single class.
FitsOk(in) == in.columns /\ in.classes = 2

\* Which dataset a call was given, as the dashboard tells the calls apart.
TrainKind(in) ==
    IF ~in.columns THEN "train_no_columns"
    ELSE IF in.classes = 0 THEN "train_no_rows"
    ELSE IF in.classes = 1 THEN "train_one_class"
    ELSE "train_two_classes"

\* joblib.dump(obj, path) that raises: the file is as it was (the open
\* failed) or truncated (the write failed).
FailedDump(file) == {file, Partial}

\* The run a call of train_model fits, named apart from the runs whose
\* artifacts outlive the call (`kept`) or are in a reader's hands.
NewRun(kept) == FreshRun(kept \cup {rTfidf.run, rModel.run})

\* train_model(dataset_path), run without interruption.
train_model(in) ==
    /\ IF ~FitsOk(in)
       THEN /\ ev' = Ran("admin", TrainKind(in), None, "error", NoRow)
            /\ UNCHANGED pklVars
       ELSE /\ \E v \in Vocabularies :
                 CASE in.disk = "ok" ->
                        /\ modelPkl' = Fitted(NewRun({}), v)
                        /\ tfidfPkl' = Fitted(NewRun({}), v)
                   [] in.disk = "fail_model" ->
                        /\ modelPkl' \in FailedDump(modelPkl)
                        /\ tfidfPkl' = tfidfPkl
                   [] in.disk = "fail_tfidf" ->
                        /\ modelPkl' = Fitted(NewRun({tfidfPkl.run}), v)
                        /\ tfidfPkl' \in FailedDump(tfidfPkl)
            /\ ev' = Ran("admin", TrainKind(in), None,
                         IF in.disk = "ok" THEN "none" ELSE "error", NoRow)
    /\ UNCHANGED <<userVars, fileVars, appendVars, artifactVars>>

\* ------------------------------------------------------------------ Spec
\* Ledgers the program can find at start: none, or rows written before
\* the is_toxic column was filled in (the rows load_comments_data backfills).
InitLedgers ==
    {<< >>, <<[comment |-> "bad", is_toxic |-> ""]>>}

InitFiles ==
    /\ csvRows \in InitLedgers
    /\ csvExists = (csvRows /= << >>)

\* Before any training the artifacts are absent; after one they are a pair.
InitArtifacts ==
    \/ tfidfPkl = Missing /\ modelPkl = Missing
    \/ \E v \in Vocabularies : tfidfPkl = Fitted(1, v) /\ modelPkl = Fitted(1, v)

InitUsers ==
    /\ toxic_comment = [u \in Users |-> None]
    /\ submitted_comments = [u \in Users |-> << >>]
    /\ written = [u \in Users |-> 0]

InitAdmin ==
    /\ ev = Ran("nobody", "none", None, "none", NoRow)

IdleAppend ==
    /\ wPc = [w \in 1..NumWriters |-> "idle"]
    /\ wSnap = [w \in 1..NumWriters |-> << >>]
    /\ wRow = [w \in 1..NumWriters |-> NoRow]
    /\ csv0 = << >>

IdleArtifacts ==
    /\ tPc = "idle"
    /\ tRun = Missing
    /\ store0 = <<Missing, Missing>>
    /\ rPc = "idle"
    /\ rTfidf = Missing
    /\ rModel = Missing

Init ==
    /\ InitFiles
    /\ InitArtifacts
    /\ InitUsers
    /\ InitAdmin
    /\ IdleAppend
    /\ IdleArtifacts

Next ==
    \/ \E u \in Users : RunStopped(u)
    \/ \E u \in Users, t \in Texts : Submit(u, t)
    \/ \E u \in Users, t \in Texts : Recheck(u, t)
    \/ \E u \in Users : SubmitAnyway(u)
    \/ \E u \in Users : Cancel(u)
    \/ LoadCommentsData
    \/ \E in \in TrainInputs : train_model(in)

Spec == Init /\ [][Next]_vars


\* ------------------------------------------------------------ SpecAppend
\* Calls of save_comment_to_csv from script runs of different sessions (each
\* session's script runs in a thread of its own), split where the code
\* touches the file: the read of lines 53-57 and the write of line 59.
Writers == 1..NumWriters
NewRows == {NewComment(t, b) : t \in {"ok", "bad"}, b \in BOOLEAN}

AppendRead(w, new) ==
    /\ wPc[w] = "idle"
    /\ wRow' = [wRow EXCEPT ![w] = new]
    /\ wSnap' = [wSnap EXCEPT ![w] = ReadAndConcat(csvExists, csvRows, new)]
    /\ wPc' = [wPc EXCEPT ![w] = "write"]
    /\ UNCHANGED <<csv0, fileVars, userVars, pklVars, ev, artifactVars>>

AppendWrite(w) ==
    /\ wPc[w] = "write"
    /\ csvRows' = to_csv(wSnap[w])
    /\ csvExists' = TRUE
    /\ wPc' = [wPc EXCEPT ![w] = "done"]
    /\ UNCHANGED <<wSnap, wRow, csv0, userVars, pklVars, ev, artifactVars>>

InitAppend ==
    /\ InitFiles
    /\ tfidfPkl = Missing /\ modelPkl = Missing
    /\ InitUsers
    /\ InitAdmin
    /\ wPc = [w \in Writers |-> "idle"]
    /\ wSnap = [w \in Writers |-> << >>]
    /\ wRow = [w \in Writers |-> NoRow]
    /\ csv0 = csvRows
    /\ IdleArtifacts

NextAppend ==
    \/ \E w \in Writers, new \in NewRows : AppendRead(w, new)
    \/ \E w \in Writers : AppendWrite(w)

SpecAppend == InitAppend /\ [][NextAppend]_vars

\* --------------------------------------------------------- SpecArtifacts
\* train_model's persistence (admin.py 104-105) against the loads of a
\* script run (user.py 27-28, admin.py 45-46), file operation by file
\* operation.  joblib.dump opens its file for writing, which truncates it,
\* then writes the pickle.

\* Lines 78-102 succeeded: the fitted pair is in memory.
TrainFit(v) ==
    /\ tPc \in {"idle", "raised"}
    /\ tRun' = Fitted(NewRun({tfidfPkl.run, modelPkl.run}), v)
    /\ store0' = <<tfidfPkl, modelPkl>>
    /\ tPc' = "fitted"
    /\ UNCHANGED <<pklVars, rPc, rTfidf, rModel, userVars, fileVars, ev, appendVars>>

\* joblib.dump(model, 'toxic_comment_model.pkl'): open, then write and close.
DumpModelOpen ==
    /\ tPc = "fitted"
    /\ modelPkl' = Partial
    /\ tPc' = "model_open"
    /\ UNCHANGED <<tfidfPkl, tRun, store0, rPc, rTfidf, rModel,
                   userVars, fileVars, ev, appendVars>>

DumpModelClose ==
    /\ tPc = "model_open"
    /\ modelPkl' = tRun
    /\ tPc' = "model_saved"
    /\ UNCHANGED <<tfidfPkl, tRun, store0, rPc, rTfidf, rModel,
                   userVars, fileVars, ev, appendVars>>

\* joblib.dump(tfidf, 'tfidf_vectorizer.pkl'): open, then write and close.
DumpTfidfOpen ==
    /\ tPc = "model_saved"
    /\ tfidfPkl' = Partial
    /\ tPc' = "tfidf_open"
    /\ UNCHANGED <<modelPkl, tRun, store0, rPc, rTfidf, rModel,
                   userVars, fileVars, ev, appendVars>>

DumpTfidfClose ==
    /\ tPc = "tfidf_open"
    /\ tfidfPkl' = tRun
    /\ tPc' = "idle"
    /\ UNCHANGED <<modelPkl, tRun, store0, rPc, rTfidf, rModel,
                   userVars, fileVars, ev, appendVars>>

\* A dump raises (the open is refused, the disk fills): train_model ends
\* with the exception, the files as the dumps so far left them.
DumpRaises ==
    /\ tPc \in {"fitted", "model_open", "model_saved", "tfidf_open"}
    /\ tPc' = "raised"
    /\ UNCHANGED <<pklVars, tRun, store0, rPc, rTfidf, rModel,
                   userVars, fileVars, ev, appendVars>>

\* A script run's first load: joblib.load('tfidf_vectorizer.pkl').
LoadTfidf ==
    /\ rPc \in {"idle", "loaded", "stopped"}
    /\ rModel' = Missing
    /\ IF JoblibLoadOk(tfidfPkl)
       THEN rTfidf' = tfidfPkl /\ rPc' = "have_tfidf"
       ELSE rTfidf' = Missing /\ rPc' = "stopped"
    /\ UNCHANGED <<pklVars, tPc, tRun, store0, userVars, fileVars, ev, appendVars>>

\* Its second load: joblib.load('toxic_comment_model.pkl').
LoadModel ==
    /\ rPc = "have_tfidf"
    /\ IF JoblibLoadOk(modelPkl)
       THEN rModel' = modelPkl /\ rPc' = "loaded" /\ UNCHANGED rTfidf
       ELSE rModel' = Missing /\ rTfidf' = Missing /\ rPc' = "stopped"
    /\ UNCHANGED <<pklVars, tPc, tRun, store0, userVars, fileVars, ev, appendVars>>

InitArtifactsSpec ==
    /\ csvRows = << >> /\ csvExists = FALSE
    /\ InitArtifacts
    /\ InitUsers
    /\ InitAdmin
    /\ IdleAppend
    /\ tPc = "idle"
    /\ tRun = Missing
    /\ store0 = <<tfidfPkl, modelPkl>>
    /\ rPc = "idle"
    /\ rTfidf = Missing
    /\ rModel = Missing

NextArtifacts ==
    \/ \E v \in Vocabularies : TrainFit(v)
    \/ DumpModelOpen
    \/ DumpModelClose
    \/ DumpTfidfOpen
    \/ DumpTfidfClose
    \/ DumpRaises
    \/ LoadTfidf
    \/ LoadModel

SpecArtifacts == InitArtifactsSpec /\ [][NextArtifacts]_vars


\* ================================================================ claims
LastRow(rows) == rows[Len(rows)]
RowsWith(rows, text) == {i \in 1..Len(rows) : rows[i].comment = text}
PublishKinds == {"published", "rechecked", "override"}
Flagged(u) == Truthy(toxic_comment[u])

\* C1: a moderation session saves at most one row, and the ledger file
\* changes only in a step into Published (a clean submit, a clean re-check, an
\* override), which adds one row.
C1_OneRowPerSession ==
    [][/\ \A u \in Users : written'[u] <= 1
       /\ fileVars' /= fileVars =>
            /\ ev'.kind \in PublishKinds
            /\ Len(csvRows') = Len(csvRows) + 1]_vars

C1_Witness ==
    /\ ev.kind = "rechecked"
    /\ written[ev.who] = 1
    /\ ~Flagged(ev.who)

\* C2: the row of a publication is the last row of the ledger; published by
\* submit or re-check, its text is the text the classifier was just asked
\* about and its label the classifier's answer; published by override, its
\* label is True.
C2_LabelMatchesPath ==
    ev.kind \in PublishKinds =>
        /\ written[ev.who] = 1
        /\ csvExists
        /\ LastRow(csvRows) = ev.saved
        /\ ev.kind \in {"published", "rechecked"} =>
              /\ ev.cls \in {"toxic", "clean"}
              /\ ev.saved.comment = ev.text
              /\ ev.saved.is_toxic = BoolCell(ev.cls = "toxic")
        /\ ev.kind = "override" => ev.saved.is_toxic = "True"

C2_Witness ==
    /\ ev.kind = "published"
    /\ LastRow(csvRows) = [comment |-> "NA", is_toxic |-> "False"]

\* C3: a re-check the classifier answers toxic leaves the session flagged,
\* with the edited text as its flagged text, and the ledger as it was.
C3_ToxicRecheckSubstitutes ==
    [][ev'.kind = "still_toxic" =>
         /\ Truthy(toxic_comment'[ev'.who])
         /\ toxic_comment'[ev'.who] = ev'.text
         /\ UNCHANGED fileVars]_vars

\* C4: an override adds one row, the session's flagged text with label True,
\* asks the classifier nothing, and leaves the session unflagged.
C4_Override ==
    [][ev'.kind = "override" =>
         /\ Flagged(ev'.who)
         /\ Len(csvRows') = Len(csvRows) + 1
         /\ LastRow(csvRows') =
               [comment |-> toxic_comment[ev'.who], is_toxic |-> "True"]
         /\ ev'.cls = "none"
         /\ ~Truthy(toxic_comment'[ev'.who])]_vars

C4_Witness ==
    /\ ev.kind = "override"
    /\ Len(csvRows) = 2
    /\ LastRow(csvRows).is_toxic = "True"

\* C5: a re-check the classifier answers non-toxic adds one row, the edited
\* text with label False, and adds no row that carries the flagged text the
\* edit replaced.
C5_CleanRecheck ==
    [][ev'.kind = "rechecked" =>
         /\ Len(csvRows') = Len(csvRows) + 1
         /\ LastRow(csvRows') = [comment |-> ev'.text, is_toxic |-> "False"]
         /\ ev'.text /= toxic_comment[ev'.who] =>
               Cardinality(RowsWith(csvRows', toxic_comment[ev'.who]))
                  <= Cardinality(RowsWith(csvRows, toxic_comment[ev'.who]))]_vars

C5_Witness ==
    /\ ev.kind = "rechecked"
    /\ ev.text = "ok"
    /\ LastRow(csvRows) = [comment |-> "ok", is_toxic |-> "False"]
    /\ RowsWith(csvRows, "NA") = {}

\* C6: a cancel leaves the ledger file and the feed as they were and the
\* session unflagged.
C6_Cancel ==
    [][ev'.kind = "cancel" =>
         /\ Flagged(ev'.who)
         /\ UNCHANGED <<fileVars, submitted_comments>>
         /\ ~Truthy(toxic_comment'[ev'.who])]_vars

C6_Witness ==
    /\ ev.kind = "cancel"
    /\ ~Flagged(ev.who)
    /\ csvExists

\* C7: when every concurrent call of save_comment_to_csv has returned, the
\* ledger holds the rows it had and the row of each call.
C7_NoLostRow ==
    (\A w \in Writers : wPc[w] = "done") =>
        /\ Len(csvRows) = Len(csv0) + NumWriters
        /\ \A w \in Writers : \E i \in 1..Len(csvRows) : csvRows[i] = wRow[w]

\* C8: a script run that loaded both artifacts holds a vectorizer and a
\* classifier of one training run.
C8_MatchedPair ==
    rPc = "loaded" => rTfidf.run = rModel.run

\* C9: when train_model ends with an exception, both artifact files are as
\* they were when it was called.
C9_FailedTrainKeepsStore ==
    tPc = "raised" => <<tfidfPkl, modelPkl>> = store0

\* C10: while an artifact is missing or unreadable, a user-page run stops at
\* the error and saves nothing, and a backfill gives no comment the label
\* False.
C10_NoDefaultLabel ==
    [][~LoadModelOk =>
         /\ ev'.who \in Users => ev'.kind = "stopped" /\ ev'.saved = NoRow
         /\ ev'.kind = "backfilled" =>
               \A i \in 1..Len(ev'.view) :
                  ev'.view[i].comment /= NaN => ev'.view[i].is_toxic /= "False"]_vars

\* C11: after load_comments_data has backfilled labels, the ledger file holds
\* a label in every row (so the next load has nothing to classify).
C11_BackfillPersisted ==
    ev.kind = "backfilled" => ~NeedsBackfill(read_csv(csvRows))

\* C12: a save adds one row at the end of the ledger file and leaves every
\* row the file held as it was, in its place.
C12_AppendKeepsRows ==
    [][fileVars' /= fileVars =>
         /\ Len(csvRows') = Len(csvRows) + 1
         /\ \A i \in 1..Len(csvRows) : csvRows'[i] = csvRows[i]]_vars

\* C13: the row a publication saves has a text that is not blank.
C13_NoBlankRow ==
    ev.kind \in PublishKinds => ~IsBlank(ev.saved.comment)

\* C14: train_model on a dataset without the text or label column, or whose
\* rows all carry one label value, ends with an error and leaves both
\* artifact files as they were.
C14_BadCorpusKeepsArtifacts ==
    [][ev'.kind \in {"train_no_columns", "train_one_class"} =>
         /\ ev'.cls = "error"
         /\ UNCHANGED pklVars]_vars

C14_Witness ==
    /\ ev.kind = "train_one_class"
    /\ ev.cls = "error"
    /\ LoadModelOk

TerminalKinds == PublishKinds \cup {"cancel"}
DraftKinds == {"stopped", "blank", "submit_exception", "flagged", "published"}

\* C15: a run that ends a moderation session (a publication by submit or by
\* re-check, an override, a cancel) leaves no flagged text in the session; and
\* a run of a session without flagged text takes the draft branch, where the
\* row it saves and the text it flags are the text it was given.
C15_TerminalClearsSession ==
    [][/\ ev'.kind \in TerminalKinds => toxic_comment'[ev'.who] = None
       /\ \A u \in Users :
             ~Flagged(u) /\ ev'.who = u =>
                /\ ev'.kind \in DraftKinds
                /\ ev'.saved \in {NoRow, NewComment(ev'.text, FALSE)}
                /\ toxic_comment'[u] \in {None, ev'.text}]_vars

C15_Witness ==
    /\ ev.kind = "flagged"
    /\ toxic_comment[ev.who] = ev.text
    /\ Len(csvRows) = 1
    /\ csvRows[1].is_toxic = "True"

FlaggedKinds ==
    {"stopped", "recheck_exception", "still_toxic", "rechecked", "override",
     "cancel"}

\* C16: a run of a session that holds a flagged text is a re-check, an
\* override or a cancel (or stops on a failed load), never a submit; and a
\* session comes to hold a flagged text only by a submit whose text the
\* classifier labelled toxic, that text being the flagged one.
C16_FlaggedGatesSubmit ==
    [][\A u \in Users :
         /\ Flagged(u) /\ ev'.who = u => ev'.kind \in FlaggedKinds
         /\ ~Flagged(u) /\ Truthy(toxic_comment'[u]) =>
               /\ ev' = Ran(u, "flagged", toxic_comment'[u], "toxic", NoRow)
               /\ UNCHANGED fileVars]_vars

C16_Witness ==
    /\ ev.kind = "still_toxic"
    /\ Flagged(ev.who)
    /\ ev.text /= toxic_comment[ev.who]

LoadKinds == {"no_file", "backfilled", "loaded"}

\* C17: load_comments_data with no ledger file returns an empty frame, shows
\* no error, and leaves the file absent.
C17_NoFileLoadsEmpty ==
    [][~csvExists /\ ev'.kind \in LoadKinds =>
         /\ ev' = Loaded("no_file", "none", EmptyFrame)
         /\ ~csvExists'
         /\ csvRows' = << >>]_vars

C17_Witness ==
    /\ ev.kind = "no_file"
    /\ ev.view = EmptyFrame
    /\ ~csvExists

\* C18: a load that backfills returns every row whose label the file holds
\* with that label.
C18_BackfillKeepsLabels ==
    ev.kind = "backfilled" =>
        \A i \in 1..Len(csvRows) :
            csvRows[i].is_toxic /= "" => ev.view[i].is_toxic = csvRows[i].is_toxic

\* The ledger row of the session's i-th feed entry: the rows the session
\* wrote follow the rows the file held when the session began.
FeedRow(u, i) == csvRows[Len(csvRows) - Len(submitted_comments[u]) + i]

\* C19: the session's feed and the ledger rows it wrote match one to one:
\* as many rows as feed entries, the i-th row holding the i-th entry's text.
C19_FeedMatchesLedger ==
    \A u \in Users :
        /\ Len(submitted_comments[u]) <= Len(csvRows)
        /\ \A i \in 1..Len(submitted_comments[u]) :
              FeedRow(u, i).comment = submitted_comments[u][i]

====
